---- MODULE Spec2Model ----
(***************************************************************************)
(* Model of src/main.py: one run of main() that logs in to the control     *)
(* panel, resolves the hosting identifiers through the two SSO handoffs    *)
(* and deploys the certificate.  The browser (Playwright) is the           *)
(* environment: every awaited call either raises or returns a value drawn  *)
(* from a small set.                                                       *)
(***************************************************************************)
EXTENDS Integers, Sequences, FiniteSets, TLC

(***************************************************************************)
(* Bounds of the model.                                                    *)
(***************************************************************************)
\* longest domain list carried by the embedded payload
MaxDomains == 3
\* deepest nesting of "data" objects in the embedded payload
MaxDepth == 3
\* most rows of the mail-account listing
MaxMailRows == 2

(***************************************************************************)
(* Strings the code inspects character by character are sequences of       *)
(* one-character strings; identifiers that are only copied are TLA+        *)
(* strings.                                                                *)
(***************************************************************************)
\* Python's None, as it is stored in a global and rendered by an f-string
None == "None"

\* NC_DOMAIN, the text "e.c"
NC_DOMAIN == <<"e", ".", "c">>

\* str.endswith
EndsWith(s, suffix) ==
    /\ Len(s) >= Len(suffix)
    /\ SubSeq(s, Len(s) - Len(suffix) + 1, Len(s)) = suffix

\* substring test, as used by Locator.filter(has_text=...)
HasText(s, sub) ==
    \E i \in 1..(Len(s) - Len(sub) + 1) : SubSeq(s, i, i + Len(sub) - 1) = sub

Digit(d) ==
    CASE d = 0 -> "0" [] d = 1 -> "1" [] d = 2 -> "2" [] d = 3 -> "3"
      [] d = 4 -> "4" [] d = 5 -> "5" [] d = 6 -> "6" [] d = 7 -> "7"
      [] d = 8 -> "8" [] d = 9 -> "9"

RECURSIVE DecStr(_)
\* decimal rendering of a natural number
DecStr(n) == IF n < 10 THEN Digit(n) ELSE DecStr(n \div 10) \o Digit(n % 10)

\* a JSON domainId: a number or a string
JNum(n) == [k |-> "num", n |-> n, s |-> ""]
JStr(s) == [k |-> "str", n |-> 0, s |-> s]

\* str(item.get("domainId"))
PyStr(id) == IF id.k = "str" THEN id.s ELSE DecStr(id.n)

(***************************************************************************)
(* The hosting panel's domains: display name, numeric id and the id's      *)
(* text.  Names and ids are keys of the panel's table, so a listing never  *)
(* repeats one.                                                            *)
(***************************************************************************)
PanelDomains ==
    { [name |-> <<"e", ".", "c">>,           num |-> 101, text |-> "101"],
      [name |-> <<"b", ".", "e", ".", "c">>, num |-> 102, text |-> "102"],
      [name |-> <<"s", ".", "e", ".", "c">>, num |-> 7,   text |-> "7"],
      [name |-> <<"b", "e", ".", "c">>,      num |-> 30,  text |-> "30"],
      [name |-> <<"o", ".", "c">>,           num |-> 999, text |-> "999"] }

\* the text of the id the panel gives the domain called name
PanelText(name) == (CHOOSE d \in PanelDomains : d.name = name).text

\* one record of the payload, its id serialised as kind ("num" or "str")
DomainRecord(d, kind) ==
    [displayName |-> d.name,
     domainId    |-> IF kind = "num" THEN JNum(d.num) ELSE JStr(d.text)]

RECURSIVE Listings(_)
\* the sequences of n distinct panel domains
Listings(n) ==
    IF n = 0 THEN { <<>> }
    ELSE UNION { { Append(l, d) :
                     d \in { x \in PanelDomains : \A i \in 1..Len(l) : l[i] # x } } :
                 l \in Listings(n - 1) }

\* the record lists a payload can carry: up to MaxDomains records, ids all
\* serialised the same way
DomainLists ==
    UNION { { [i \in 1..Len(l) |-> DomainRecord(l[i], kind)] :
                l \in Listings(n), kind \in {"num", "str"} } : n \in 0..MaxDomains }

(***************************************************************************)
(* Python values of the parsed payload.  Every value is a record of the    *)
(* same shape: t is the type, data the value under the key "data" (a       *)
(* sequence of none or one), other whether a dict has further keys, error  *)
(* whether it has the key "error", items the elements of a list.           *)
(***************************************************************************)
PyDict(data, other, error) ==
    [t |-> "dict", data |-> data, other |-> other, error |-> error, items |-> <<>>]
PyList(items) ==
    [t |-> "list", data |-> <<>>, other |-> FALSE, error |-> FALSE, items |-> items]
PyText == [t |-> "str", data |-> <<>>, other |-> FALSE, error |-> FALSE, items |-> <<>>]
PyNone == [t |-> "null", data |-> <<>>, other |-> FALSE, error |-> FALSE, items |-> <<>>]

\* bool(v)
Truthy(v) ==
    CASE v.t = "dict" -> v.data # <<>> \/ v.other \/ v.error
      [] v.t = "list" -> v.items # <<>>
      [] v.t = "str"  -> TRUE
      [] v.t = "null" -> FALSE

\* whether v.get exists: only a dict has the method
HasGet(v) == v.t = "dict"

\* v.get("data", default), for a dict v
Get(v, default) == IF v.data # <<>> THEN v.data[1] ELSE default

RECURSIVE Wrap(_, _)
\* leaf under depth nested "data" keys
Wrap(depth, leaf) ==
    IF depth = 0 THEN leaf ELSE PyDict(<<Wrap(depth - 1, leaf)>>, FALSE, FALSE)

\* what the innermost "data" key can hold
Leaves ==
    { PyList(l) : l \in DomainLists }
      \cup { PyText, PyNone, PyDict(<<>>, FALSE, FALSE), PyDict(<<>>, TRUE, FALSE) }

\* what page.evaluate can return: null, {error: ...}, or the parsed object
Payloads ==
    { PyNone, PyDict(<<>>, FALSE, TRUE), PyDict(<<>>, FALSE, FALSE), PyDict(<<>>, TRUE, FALSE) }
      \cup { Wrap(depth, leaf) : depth \in 1..MaxDepth, leaf \in Leaves }

(***************************************************************************)
(* get_web_internal_ids, after page.evaluate.  An exception is the text of *)
(* its message; "" is no exception.                                        *)
(***************************************************************************)
ErrNoData      == "Failed to retrieve Plesk data via JS"
ErrJs          == "JS execution failed inside browser"
ErrMismatch    == "JSON structure mismatch"
ErrNoDomain    == "Target domain not found in Plesk data"
ErrAttribute   == "AttributeError"

\* lines 216-228: the domain list of the payload, or the exception raised
DecodeDomains(data_obj) ==
    LET got1   == Get(data_obj, PyDict(<<>>, FALSE, FALSE))
        level1 == IF ~Truthy(got1) THEN data_obj ELSE got1
    IN  IF ~HasGet(level1) THEN [exc |-> ErrAttribute, list |-> PyNone]
        ELSE LET level2 == Get(level1, PyDict(<<>>, FALSE, FALSE))
             IN  IF ~HasGet(level2) THEN [exc |-> ErrAttribute, list |-> PyNone]
                 ELSE LET first  == Get(level2, PyList(<<>>))
                          second == IF first.t # "list"
                                    THEN Get(level1, PyList(<<>>)) ELSE first
                      IN  IF second.t # "list"
                          THEN [exc |-> ErrMismatch, list |-> second]
                          ELSE [exc |-> "", list |-> second]

\* the suffix test without its leading dot
IsSubdomainWrong(d_name) == EndsWith(d_name, NC_DOMAIN)
\* line 245: d_name.endswith(f".{NC_DOMAIN}")
IsSubdomain(d_name) == EndsWith(d_name, <<".">> \o NC_DOMAIN)

RECURSIVE ScanDomainsNoAppend(_, _)
\* a loop that stores the exact match as primary without listing it
ScanDomainsNoAppend(domains, acc) ==
    IF domains = <<>> THEN acc
    ELSE LET item   == Head(domains)
             d_name == item.displayName
             d_id   == PyStr(item.domainId)
         IN  ScanDomainsNoAppend(Tail(domains),
                IF d_name = NC_DOMAIN
                THEN [main |-> d_id, all |-> acc.all, found_main |-> TRUE]
                ELSE IF IsSubdomain(d_name)
                     THEN [acc EXCEPT !.all = Append(acc.all, d_id)]
                     ELSE acc)

RECURSIVE ScanDomains(_, _)
\* lines 235-247: the loop over the domain list, from the globals in acc
ScanDomains(domains, acc) ==
    IF domains = <<>> THEN acc
    ELSE LET item   == Head(domains)
             d_name == item.displayName
             d_id   == PyStr(item.domainId)
         IN  ScanDomains(Tail(domains),
                IF d_name = NC_DOMAIN
                THEN [main |-> d_id, all |-> Append(acc.all, d_id), found_main |-> TRUE]
                ELSE IF IsSubdomain(d_name)
                     THEN [acc EXCEPT !.all = Append(acc.all, d_id)]
                     ELSE acc)

\* a fallback that takes the last id found
FallbackLast(all_ids) == all_ids[Len(all_ids)]
\* line 252: the fallback primary id
FallbackMain(all_ids) == all_ids[1]

\* a test that enters the fallback branch whatever was found
NeedsFallbackAlways(found) == TRUE
\* line 249: whether the fallback branch is entered
NeedsFallback(found) == ~found

\* lines 208-258: the globals and the exception after the call, given the
\* value page.evaluate returned and the MAIN_WEB_ID and ALL_WEB_IDS before
ResolveWeb(data_obj, main0, all0) ==
    IF ~Truthy(data_obj)
    THEN [exc |-> ErrNoData, main |-> main0, all |-> all0,
          list |-> PyNone, found_main |-> FALSE, fallback |-> FALSE]
    ELSE IF data_obj.error
    THEN [exc |-> ErrJs, main |-> main0, all |-> all0,
          list |-> PyNone, found_main |-> FALSE, fallback |-> FALSE]
    ELSE LET dec == DecodeDomains(data_obj)
         IN  IF dec.exc # ""
             THEN [exc |-> dec.exc, main |-> main0, all |-> all0,
                   list |-> dec.list, found_main |-> FALSE, fallback |-> FALSE]
             ELSE LET scan == ScanDomains(dec.list.items,
                                 [main |-> main0, all |-> <<>>, found_main |-> FALSE])
                  IN  IF NeedsFallback(scan.found_main)
                      THEN IF scan.all # <<>>
                           THEN [exc |-> "", main |-> FallbackMain(scan.all),
                                 all |-> scan.all, list |-> dec.list,
                                 found_main |-> scan.found_main, fallback |-> TRUE]
                           ELSE [exc |-> ErrNoDomain, main |-> scan.main,
                                 all |-> scan.all, list |-> dec.list,
                                 found_main |-> scan.found_main, fallback |-> FALSE]
                      ELSE [exc |-> "", main |-> scan.main, all |-> scan.all,
                            list |-> dec.list, found_main |-> scan.found_main,
                            fallback |-> FALSE]

(***************************************************************************)
(* get_mail_internal_id.  A row of the mail listing: its text and its      *)
(* checkbox ("absent": no checkbox; "novalue": no value attribute;         *)
(* "empty": value=""; otherwise the value).                                *)
(***************************************************************************)
ErrNoMail     == "Mail ID not found"
ErrNoMailId   == "Found mail row but could not extract ID from checkbox value"
ErrPlaywright == "playwright error"

\* the mail accounts of the panel: domain and the id its checkbox carries
MailAccounts ==
    { [name |-> <<"e", ".", "c">>,           id |-> "41"],
      [name |-> <<"b", ".", "e", ".", "c">>, id |-> "42"],
      [name |-> <<"o", ".", "c">>,           id |-> "43"] }

MailRows ==
    { [text |-> a.name, box |-> b] :
        a \in MailAccounts, b \in {"absent", "novalue", "empty"} }
      \cup { [text |-> a.name, box |-> a.id] : a \in MailAccounts }

RECURSIVE MailListings(_)
\* the listings of n rows, no domain twice
MailListings(n) ==
    IF n = 0 THEN { <<>> }
    ELSE UNION { { Append(l, r) :
                     r \in { x \in MailRows :
                               \A i \in 1..Len(l) : l[i].text # x.text } } :
                 l \in MailListings(n - 1) }

MailPages == UNION { MailListings(n) : n \in 0..MaxMailRows }

\* line 159: page.locator("tr").filter(has_text=NC_DOMAIN), which keeps the
\* rows whose text contains NC_DOMAIN
RowMatches(r) == HasText(r.text, NC_DOMAIN)

\* lines 159-172: MAIL_ID and the exception after the lookup in rows
ResolveMail(rows, mail0) ==
    LET row   == SelectSeq(rows, RowMatches)
        boxes == SelectSeq(row, LAMBDA r : r.box # "absent")
    IN  IF Len(row) = 0 THEN [exc |-> ErrNoMail, mail |-> mail0]
        ELSE IF Len(boxes) # 1 THEN [exc |-> ErrPlaywright, mail |-> mail0]
        ELSE LET value == IF boxes[1].box = "novalue" THEN None
                          ELSE IF boxes[1].box = "empty" THEN ""
                          ELSE boxes[1].box
             IN  IF value = None \/ value = ""
                 THEN [exc |-> ErrNoMailId, mail |-> value]
                 ELSE [exc |-> "", mail |-> value]

(***************************************************************************)
(* process_sso_button: the address of the tab the handoff opens.           *)
(***************************************************************************)
\* the addresses the new tab can have; hostname <<>> is urlparse giving none
NewPageUrls(button_name) ==
    IF button_name = "WEB"
    THEN { [hostname |-> <<"w7", "webhosting", "systems">>], [hostname |-> <<>>] }
    ELSE { [hostname |-> <<"m3", "webhosting", "systems">>], [hostname |-> <<>>] }

\* lines 106-118: hostname.split('.')[0], or None
ExtractId(current_url) ==
    IF current_url.hostname # <<>> THEN current_url.hostname[1] ELSE None

(***************************************************************************)
(* The run.                                                                *)
(***************************************************************************)
VARIABLES
    pc,             \* the statement of main (or of its callee) to run next
    exc,            \* the exception being propagated, "" if none
    result,         \* "running", "returned" or "raised"
    browser, context, page,   \* "none", "open" or "closed"
    new_page,       \* per kind, the tab of its handoff: "none", "open", "closed"
    button_name,    \* "WEB" or "MAIL" inside process_sso_button, else ""
    cert_name,
    post_login,     \* what handle_login sees after submitting the form
    totp,           \* "none", "generated" or "submitted"
    WEBHOSTING_ID, MAILHOSTING_ID, MAIN_WEB_ID, ALL_WEB_IDS, MAIL_ID,
    data_obj, domains_list, found_main,   \* locals of get_web_internal_ids
    used_fallback,  \* whether lines 251-252 ran in get_web_internal_ids
    mail_rows,      \* the listing get_mail_internal_id saw, while it runs
    ops,            \* the deployment operations completed, in order
    sub_idx,        \* position of the loop over ALL_WEB_IDS
    screenshot,     \* "none" or "captured"
    tolerated,      \* the failure conditions that were logged and passed over
    stages,         \* the stages of main that have started, in order
    assigned,       \* per host-id global, the kinds whose handoff assigned it
    handoffs        \* per kind, the number of tabs its button has opened

session == <<browser, context, page>>
login == <<post_login, totp>>
globals == <<WEBHOSTING_ID, MAILHOSTING_ID, MAIN_WEB_ID, ALL_WEB_IDS, MAIL_ID>>
locals == <<data_obj, domains_list, found_main, used_fallback, mail_rows>>

\* get_mail_internal_id has not read a listing
NoListing == [seen |-> FALSE, rows |-> <<>>]
deploy == <<ops, sub_idx>>
history == <<tolerated, stages, assigned, handoffs>>
vars == <<pc, exc, result, session, new_page, button_name, cert_name, login,
          globals, locals, deploy, screenshot, history>>

\* the two buttons of trigger_auto_login, lines 148-149
Kinds == {"WEB", "MAIL"}

NoPage == [loaded |-> FALSE, start |-> FALSE, verification |-> FALSE, tan |-> FALSE]

\* what the panel can show after the login form is submitted: whether the
\* address holds "start.php", whether the content holds "verification",
\* whether the TAN field of a second-factor challenge is there
PostLoginPages ==
    { [loaded |-> TRUE, start |-> s, verification |-> v, tan |-> t] :
        s \in BOOLEAN, v \in BOOLEAN, t \in BOOLEAN }

\* lines 34-39
Init ==
    /\ pc = "main"
    /\ exc = ""
    /\ result = "running"
    /\ browser = "none" /\ context = "none" /\ page = "none"
    /\ new_page = [k \in Kinds |-> "none"]
    /\ button_name = ""
    /\ cert_name = ""
    /\ post_login = NoPage
    /\ totp = "none"
    /\ WEBHOSTING_ID = None /\ MAILHOSTING_ID = None
    /\ MAIN_WEB_ID = None /\ ALL_WEB_IDS = <<>> /\ MAIL_ID = None
    /\ data_obj = PyNone /\ domains_list = PyNone /\ found_main = FALSE
    /\ used_fallback = FALSE
    /\ mail_rows = NoListing
    /\ ops = <<>> /\ sub_idx = 1
    /\ screenshot = "none"
    /\ tolerated = {}
    /\ stages = <<>>
    /\ assigned = [k \in Kinds |-> <<>>]
    /\ handoffs = [k \in Kinds |-> 0]

\* an exception raised inside the try block of main reaches its except clause
Raise(e) == pc' = "except" /\ exc' = e

\* lines 333-338: the certificate name and the two files; an exception here
\* leaves main before the browser exists
ReadFiles ==
    /\ pc = "main"
    /\ \/ /\ \E date \in {"20240101", "20240102"} : cert_name' = "acme-e.c" \o date
          /\ pc' = "launch"
          /\ UNCHANGED <<exc, result>>
       \/ /\ pc' = "done" /\ exc' = "FileNotFoundError" /\ result' = "raised"
          /\ UNCHANGED cert_name
    /\ UNCHANGED <<session, new_page, button_name, login, globals, locals,
                   deploy, screenshot, history>>

\* lines 340-352: browser, context and page; an exception here is outside the
\* try block
Launch ==
    /\ pc = "launch"
    /\ \/ /\ browser' = "open" /\ context' = "open" /\ page' = "open"
          /\ pc' = "login"
          /\ UNCHANGED <<exc, result>>
       \/ /\ \E made \in 0..2 :
                /\ browser' = IF made >= 1 THEN "open" ELSE "none"
                /\ context' = IF made >= 2 THEN "open" ELSE "none"
          /\ page' = "none"
          /\ pc' = "done" /\ exc' = ErrPlaywright /\ result' = "raised"
    /\ UNCHANGED <<new_page, button_name, cert_name, login, globals, locals,
                   deploy, screenshot, history>>

\* line 355 and lines 63-70: handle_login starts, the form is submitted and
\* the page settles
LoginSubmit ==
    /\ pc = "login"
    /\ stages' = Append(stages, "handle_login")
    /\ \/ /\ \E shown \in PostLoginPages : post_login' = shown
          /\ pc' = "second_factor"
          /\ UNCHANGED exc
       \/ /\ Raise(ErrPlaywright)
          /\ UNCHANGED post_login
    /\ UNCHANGED <<result, session, new_page, button_name, cert_name, totp,
                   globals, locals, deploy, screenshot, tolerated, assigned,
                   handoffs>>

\* line 72: "start.php" in page.url or "verification" in await page.content()
ChallengeDetected(shown) == shown.start \/ shown.verification

\* lines 72-80
LoginSecondFactor ==
    /\ pc = "second_factor"
    /\ IF ChallengeDetected(post_login)
       THEN IF post_login.tan
            THEN /\ totp' = "submitted"
                 /\ \/ pc' = "products" /\ UNCHANGED exc
                    \/ Raise(ErrPlaywright)
            ELSE /\ totp' = "generated"
                 /\ Raise(ErrPlaywright)
       ELSE /\ pc' = "products"
            /\ UNCHANGED <<exc, totp>>
    /\ post_login' = NoPage
    /\ UNCHANGED <<result, session, new_page, button_name, cert_name,
                   globals, locals, deploy, screenshot, history>>

ErrNoProduct == "Product row not found"

\* line 356 and lines 134-146: trigger_auto_login starts and looks for the
\* product row
ProductLookup ==
    /\ pc = "products"
    /\ stages' = Append(stages, "trigger_auto_login")
    /\ \/ /\ pc' = "sso_click" /\ button_name' = "WEB"
          /\ UNCHANGED exc
       \/ /\ \E e \in {ErrNoProduct, ErrPlaywright} : Raise(e)
          /\ UNCHANGED button_name
    /\ UNCHANGED <<result, session, new_page, cert_name, login, globals, locals,
                   deploy, screenshot, tolerated, assigned, handoffs>>

ErrNoButton == "Failed to Auto-Login"
ErrLoad     == "Page load timed out"

\* lines 84-95: the button is clicked and the new tab opens
SsoClick ==
    /\ pc = "sso_click"
    /\ \/ /\ new_page' = [new_page EXCEPT ![button_name] = "open"]
          /\ handoffs' = [handoffs EXCEPT ![button_name] = @ + 1]
          /\ pc' = "sso_load"
          /\ UNCHANGED exc
       \/ /\ Raise(ErrNoButton)
          /\ UNCHANGED <<new_page, handoffs>>
    /\ UNCHANGED <<result, session, button_name, cert_name, login, globals,
                   locals, deploy, screenshot, tolerated, stages, assigned>>

\* every button stores into the global of the web subsystem
TargetGlobalAlwaysWeb(button) == "WEB"
\* lines 120-126: the global (named by its kind) a button's host id goes to
TargetGlobal(button) == IF button = "WEB" THEN "WEB" ELSE "MAIL"

\* lines 96-127, up to the first await of the id extraction: the tab loads,
\* the host id is taken from its address and stored in the global of the
\* kind; an address without a hostname is logged (lines 114-115) and None
\* is stored
SsoLoad ==
    /\ pc = "sso_load"
    /\ \/ /\ \E current_url \in NewPageUrls(button_name) :
                LET extracted_id == ExtractId(current_url)
                IN  /\ IF TargetGlobal(button_name) = "WEB"
                       THEN /\ WEBHOSTING_ID' = extracted_id
                            /\ pc' = "web_ids"
                            /\ UNCHANGED MAILHOSTING_ID
                       ELSE /\ MAILHOSTING_ID' = extracted_id
                            /\ pc' = "mail_id"
                            /\ UNCHANGED WEBHOSTING_ID
                    /\ tolerated' = IF extracted_id = None
                                    THEN tolerated \cup {"no_host_id"}
                                    ELSE tolerated
          /\ assigned' = [assigned EXCEPT ![TargetGlobal(button_name)] =
                                              Append(@, button_name)]
          /\ UNCHANGED exc
       \/ /\ Raise(ErrLoad)
          /\ UNCHANGED <<WEBHOSTING_ID, MAILHOSTING_ID, tolerated, assigned>>
    /\ UNCHANGED <<result, session, new_page, button_name, cert_name, login,
                   MAIN_WEB_ID, ALL_WEB_IDS, MAIL_ID, locals, deploy, screenshot,
                   stages, handoffs>>

\* lines 175-258
GetWebInternalIds ==
    /\ pc = "web_ids"
    /\ \/ \E returned \in Payloads :
            LET r == ResolveWeb(returned, MAIN_WEB_ID, ALL_WEB_IDS)
            IN  /\ data_obj' = returned
                /\ domains_list' = r.list
                /\ found_main' = r.found_main
                /\ used_fallback' = r.fallback
                /\ MAIN_WEB_ID' = r.main
                /\ ALL_WEB_IDS' = r.all
                /\ IF r.exc = "" THEN pc' = "sso_close" /\ UNCHANGED exc
                   ELSE Raise(r.exc)
       \/ /\ Raise(ErrPlaywright)
          /\ UNCHANGED <<data_obj, domains_list, found_main, used_fallback,
                         MAIN_WEB_ID, ALL_WEB_IDS>>
    /\ UNCHANGED <<result, session, new_page, button_name, cert_name, login,
                   WEBHOSTING_ID, MAILHOSTING_ID, MAIL_ID, mail_rows, deploy,
                   screenshot, history>>

\* lines 152-172
GetMailInternalId ==
    /\ pc = "mail_id"
    /\ \/ \E rows \in MailPages :
            LET r == ResolveMail(rows, MAIL_ID)
            IN  /\ mail_rows' = [seen |-> TRUE, rows |-> rows]
                /\ MAIL_ID' = r.mail
                /\ IF r.exc = "" THEN pc' = "sso_close" /\ UNCHANGED exc
                   ELSE Raise(r.exc)
       \/ /\ Raise(ErrPlaywright)
          /\ UNCHANGED <<mail_rows, MAIL_ID>>
    /\ UNCHANGED <<result, session, new_page, button_name, cert_name, login,
                   WEBHOSTING_ID, MAILHOSTING_ID, MAIN_WEB_ID, ALL_WEB_IDS,
                   data_obj, domains_list, found_main, used_fallback, deploy,
                   screenshot, history>>

\* a resolver that goes on to the deployment after the first handoff
SsoCloseSkipsMail ==
    /\ pc = "sso_close"
    /\ new_page' = [new_page EXCEPT ![button_name] = "closed"]
    /\ button_name' = "" /\ pc' = "upload_web"
    /\ data_obj' = PyNone /\ domains_list' = PyNone /\ found_main' = FALSE
    /\ used_fallback' = FALSE
    /\ mail_rows' = NoListing
    /\ UNCHANGED <<exc, result, session, cert_name, login, globals, deploy,
                   screenshot, history>>

\* a handoff that leaves its tab open
SsoCloseLeavesOpen ==
    /\ pc = "sso_close"
    /\ IF button_name = "WEB"
       THEN button_name' = "MAIL" /\ pc' = "sso_click"
       ELSE button_name' = "" /\ pc' = "upload_web"
    /\ UNCHANGED new_page
    /\ data_obj' = PyNone /\ domains_list' = PyNone /\ found_main' = FALSE
    /\ used_fallback' = FALSE
    /\ mail_rows' = NoListing
    /\ UNCHANGED <<exc, result, session, cert_name, login, globals, deploy,
                   screenshot, history>>

\* lines 129-130, then line 149 or the return to main; the callee's locals
\* are gone
SsoClose ==
    /\ pc = "sso_close"
    /\ new_page' = [new_page EXCEPT ![button_name] = "closed"]
    /\ IF button_name = "WEB"
       THEN button_name' = "MAIL" /\ pc' = "sso_click"
       ELSE button_name' = "" /\ pc' = "upload_web"
    /\ data_obj' = PyNone /\ domains_list' = PyNone /\ found_main' = FALSE
    /\ used_fallback' = FALSE
    /\ mail_rows' = NoListing
    /\ UNCHANGED <<exc, result, session, cert_name, login, globals, deploy,
                   screenshot, history>>

(***************************************************************************)
(* The deployment, lines 359-396.  An operation is recorded in ops when    *)
(* its call returns, with the host id and the id of its address and the    *)
(* certificate name it was given.                                          *)
(***************************************************************************)
Op(name, host, id) == [op |-> name, host |-> host, id |-> id, cert |-> cert_name]

\* an order with the second upload after the first binding
StepAfterSwapped(step) ==
    CASE step = "upload_web"    -> "secure_web"
      [] step = "secure_web"    -> "upload_mail"
      [] step = "upload_mail"   -> "hosting"
      [] step = "hosting"       -> "secure_mail"
      [] step = "secure_mail"   -> "mail_settings"
      [] step = "mail_settings" -> "finally"
\* the order of the statements of the try block, lines 360-394
StepAfter(step) ==
    CASE step = "upload_web"    -> "upload_mail"
      [] step = "upload_mail"   -> "secure_web"
      [] step = "secure_web"    -> "hosting"
      [] step = "hosting"       -> "secure_mail"
      [] step = "secure_mail"   -> "mail_settings"
      [] step = "mail_settings" -> "finally"

\* one awaited deployment call: it returns, or it raises
Call(step, entry) ==
    /\ pc = step
    /\ \/ /\ ops' = Append(ops, entry)
          /\ pc' = StepAfter(step)
          /\ UNCHANGED exc
       \/ /\ Raise(ErrPlaywright)
          /\ UNCHANGED ops
    /\ UNCHANGED <<result, session, new_page, button_name, cert_name, login,
                   globals, locals, sub_idx, screenshot, assigned, handoffs>>

\* lines 283-287: when the upload got as far as the submit, the success
\* message is seen, or its absence is logged and the upload returns
Confirmation ==
    IF ops' # ops
    THEN \E seen \in BOOLEAN :
            tolerated' = IF seen THEN tolerated
                         ELSE tolerated \cup {"no_confirmation"}
    ELSE UNCHANGED tolerated

\* lines 360-364 and 261-287: the deployment starts with the upload to the
\* web subsystem; no address built at lines 362 and 367 contains "list", so
\* the branch of lines 265-270 is not entered
UploadWeb ==
    /\ Call("upload_web", Op("upload_certificate", WEBHOSTING_ID, MAIN_WEB_ID))
    /\ Confirmation
    /\ stages' = Append(stages, "deploy")

\* lines 365-369 and 261-287
UploadMail ==
    /\ Call("upload_mail", Op("upload_certificate", MAILHOSTING_ID, MAIL_ID))
    /\ Confirmation
    /\ UNCHANGED stages

\* lines 373-377 and 290-302
SecureMailWeb ==
    /\ Call("secure_web", Op("secure_mail_action", WEBHOSTING_ID, MAIN_WEB_ID))
    /\ UNCHANGED <<tolerated, stages>>

\* a loop that leaves out the first id
HostingTargetsSkipFirst(all_ids) == Tail(all_ids)
\* line 378: the ids the loop visits
HostingTargets(all_ids) == all_ids

\* lines 378-383 and 305-315: one pass of the loop, or its end
UpdateHostingSettings ==
    /\ pc = "hosting"
    /\ LET targets == HostingTargets(ALL_WEB_IDS)
       IN  IF sub_idx <= Len(targets)
           THEN \/ /\ ops' = Append(ops, Op("update_hosting_settings",
                                            WEBHOSTING_ID, targets[sub_idx]))
                   /\ sub_idx' = sub_idx + 1
                   /\ UNCHANGED <<pc, exc>>
                \/ /\ Raise(ErrPlaywright)
                   /\ UNCHANGED <<ops, sub_idx>>
           ELSE /\ pc' = StepAfter("hosting")
                /\ UNCHANGED <<exc, ops, sub_idx>>
    /\ UNCHANGED <<result, session, new_page, button_name, cert_name, login,
                   globals, locals, screenshot, history>>

\* lines 385-389 and 290-302
SecureMailMail ==
    /\ Call("secure_mail", Op("secure_mail_action", MAILHOSTING_ID, MAIL_ID))
    /\ UNCHANGED <<tolerated, stages>>

\* lines 390-396 and 318-329
UpdateMailSettings ==
    /\ Call("mail_settings", Op("update_mail_settings", MAILHOSTING_ID, MAIL_ID))
    /\ UNCHANGED <<tolerated, stages>>

ErrScreenshot == "screenshot failed"

\* lines 398-401: the screenshot, then the exception goes on; if the
\* screenshot raises, its exception is the one that goes on
Screenshot ==
    /\ pc = "except"
    /\ \/ screenshot' = "captured" /\ UNCHANGED exc
       \/ exc' = ErrScreenshot /\ UNCHANGED screenshot
    /\ pc' = "finally"
    /\ data_obj' = PyNone /\ domains_list' = PyNone /\ found_main' = FALSE
    /\ used_fallback' = FALSE
    /\ mail_rows' = NoListing
    /\ UNCHANGED <<result, session, new_page, button_name, cert_name, login,
                   globals, deploy, history>>

\* line 403: closing the context closes its pages
CloseContext ==
    /\ pc = "finally"
    /\ context' = "closed" /\ page' = "closed"
    /\ new_page' = [k \in Kinds |->
                       IF new_page[k] = "open" THEN "closed" ELSE new_page[k]]
    /\ pc' = "close_browser"
    /\ UNCHANGED <<exc, result, browser, button_name, cert_name, login, globals,
                   locals, deploy, screenshot, history>>

\* the browser closed only at the end of the try block
CloseBrowserOnSuccess ==
    /\ pc = "close_browser"
    /\ browser' = IF exc = "" THEN "closed" ELSE browser
    /\ pc' = "done"
    /\ result' = IF exc = "" THEN "returned" ELSE "raised"
    /\ UNCHANGED <<exc, context, page, new_page, button_name, cert_name, login,
                   globals, locals, deploy, screenshot, history>>

\* line 404, then main returns or raises
CloseBrowser ==
    /\ pc = "close_browser"
    /\ browser' = "closed"
    /\ pc' = "done"
    /\ result' = IF exc = "" THEN "returned" ELSE "raised"
    /\ UNCHANGED <<exc, context, page, new_page, button_name, cert_name, login,
                   globals, locals, deploy, screenshot, history>>

Next ==
    \/ ReadFiles
    \/ Launch
    \/ LoginSubmit
    \/ LoginSecondFactor
    \/ ProductLookup
    \/ SsoClick
    \/ SsoLoad
    \/ GetWebInternalIds
    \/ GetMailInternalId
    \/ SsoClose
    \/ UploadWeb
    \/ UploadMail
    \/ SecureMailWeb
    \/ UpdateHostingSettings
    \/ SecureMailMail
    \/ UpdateMailSettings
    \/ Screenshot
    \/ CloseContext
    \/ CloseBrowser

Spec == Init /\ [][Next]_vars

\* every awaited call returns or raises within its timeout, so a run that
\* can take a step takes one
LiveSpec == Spec /\ WF_vars(Next)

(***************************************************************************)
(* Properties.  The words of the claims on a domain record, stated apart   *)
(* from the operators that model the code.                                 *)
(***************************************************************************)
\* the record's displayName equals the target domain
Exact(item) == item.displayName = NC_DOMAIN

\* the record's displayName ends with "." + target domain
Sub(item) ==
    LET name == item.displayName
        k    == Len(name) - Len(NC_DOMAIN)
    IN  /\ k >= 1
        /\ name[k] = "."
        /\ \A i \in 1..Len(NC_DOMAIN) : name[k + i] = NC_DOMAIN[i]

\* the string form of a domainId: a string is itself, a number is the text
\* the panel shows for it
StringForm(id) ==
    IF id.k = "str" THEN id.s
    ELSE (CHOOSE d \in PanelDomains : d.num = id.n).text

\* get_web_internal_ids has just decoded a domain list
Decoded == domains_list.t = "list"
\* get_web_internal_ids has just returned without an exception
WebResolved == pc = "sso_close" /\ button_name = "WEB"

\* C1: when the decoded domain list holds an entry whose displayName equals
\* the target domain, get_web_internal_ids returns with MAIN_WEB_ID equal to
\* the string form of that entry's domainId and without taking the fallback
\* branch, wherever the entry stands in the list.
C1_ExactMatchIsPrimary ==
    (Decoded /\ \E i \in DOMAIN domains_list.items : Exact(domains_list.items[i]))
    => /\ WebResolved
       /\ exc = ""
       /\ ~used_fallback
       /\ \A i \in DOMAIN domains_list.items :
            Exact(domains_list.items[i])
            => MAIN_WEB_ID = StringForm(domains_list.items[i].domainId)

\* C1 witness: the exact match was found after a subdomain entry
C1_Witness ==
    /\ WebResolved /\ Decoded
    /\ Len(domains_list.items) >= 2
    /\ Sub(domains_list.items[1])
    /\ \E i \in 2..Len(domains_list.items) : Exact(domains_list.items[i])

\* the position of the first subdomain entry of the decoded list
FirstSub ==
    CHOOSE i \in DOMAIN domains_list.items :
        /\ Sub(domains_list.items[i])
        /\ \A j \in 1..(i - 1) : ~Sub(domains_list.items[j])

\* C2: when the decoded domain list holds no exact match but at least one
\* subdomain entry, get_web_internal_ids returns and MAIN_WEB_ID is the
\* string form of the domainId of the first subdomain entry in list order.
C2_FallbackIsFirstSubdomain ==
    (/\ Decoded
     /\ \A i \in DOMAIN domains_list.items : ~Exact(domains_list.items[i])
     /\ \E i \in DOMAIN domains_list.items : Sub(domains_list.items[i]))
    => /\ WebResolved
       /\ exc = ""
       /\ MAIN_WEB_ID = StringForm(domains_list.items[FirstSub].domainId)

\* C2 witness: no exact match, two subdomain entries after an unrelated one
C2_Witness ==
    /\ WebResolved /\ Decoded
    /\ Len(domains_list.items) = 3
    /\ ~Exact(domains_list.items[1]) /\ ~Sub(domains_list.items[1])
    /\ Sub(domains_list.items[2]) /\ Sub(domains_list.items[3])
    /\ used_fallback

\* the string-form ids of the entries that are the target domain or a
\* subdomain of it, in list order
MatchingIds ==
    LET m == SelectSeq(domains_list.items, LAMBDA it : Exact(it) \/ Sub(it))
    IN  [i \in 1..Len(m) |-> StringForm(m[i].domainId)]

\* C3: after get_web_internal_ids returns, ALL_WEB_IDS is exactly the
\* string-form domainIds of the entries whose displayName equals the target
\* domain or ends with "." + target domain, in list order; no other entry
\* contributes an id.
C3_AllWebIdsAreTheMatches ==
    WebResolved => (Decoded /\ ALL_WEB_IDS = MatchingIds)

\* C3 witness: an exact match, a subdomain and an entry that only ends with
\* the target's text, ids serialised as numbers
C3_Witness ==
    /\ WebResolved /\ Decoded
    /\ Len(domains_list.items) = 3
    /\ \E i, j, k \in 1..3 :
         /\ Exact(domains_list.items[i])
         /\ Sub(domains_list.items[j])
         /\ domains_list.items[k].displayName = <<"b", "e", ".", "c">>
    /\ domains_list.items[1].domainId.k = "num"
    /\ Len(ALL_WEB_IDS) = 2

\* no entry of the decoded list is the target domain or a subdomain of it
NoMatch(list) == \A i \in DOMAIN list.items : ~Exact(list.items[i]) /\ ~Sub(list.items[i])

\* C4: a decoded domain list with neither an exact nor a subdomain match
\* makes get_web_internal_ids raise the domain-not-found error; from then on
\* that error stays the error of the run, the run does not return normally,
\* and no deployment operation is performed.
C4_NoMatchEndsRunWithDomainNotFound ==
    [][ /\ (domains_list'.t = "list" /\ NoMatch(domains_list'))
           => (exc' = ErrNoDomain /\ pc' = "except")
        /\ exc = ErrNoDomain
           => (exc' = ErrNoDomain /\ ops' = <<>> /\ result' # "returned") ]_vars

\* C5: a mail listing with no row whose text is exactly the target domain
\* makes get_mail_internal_id raise the mail-id-not-found error and leaves
\* MAIL_ID unset.
C5_NoExactRowIsMailIdNotFound ==
    (mail_rows.seen /\ \A i \in DOMAIN mail_rows.rows : mail_rows.rows[i].text # NC_DOMAIN)
    => (exc = ErrNoMail /\ pc = "except" /\ MAIL_ID = None)

RECURSIVE Unwrap(_, _)
\* the value found by following the key "data" depth times, PyNone if the
\* path does not exist
Unwrap(v, depth) ==
    IF depth = 0 THEN v
    ELSE IF v.t = "dict" /\ v.data # <<>> THEN Unwrap(v.data[1], depth - 1)
    ELSE PyNone

\* C6: a payload carrying the records as a direct data list and one carrying
\* them as a data.data list both decode to that list of records, and neither
\* raises a decoding error.
C6_ShapeInvariance ==
    \A depth \in {1, 2} :
        (data_obj.t = "dict" /\ Unwrap(data_obj, depth).t = "list")
        => /\ domains_list = Unwrap(data_obj, depth)
           /\ exc \in {"", ErrNoDomain}

\* C7: a parsed payload object in which no nesting level of data holds a
\* list makes get_web_internal_ids raise the schema-mismatch error and no
\* other.
C7_NoListIsSchemaMismatch ==
    (/\ data_obj.t = "dict"
     /\ (data_obj.data # <<>> \/ data_obj.other)
     /\ ~data_obj.error
     /\ \A depth \in 1..(MaxDepth + 1) : Unwrap(data_obj, depth).t # "list")
    => (exc = ErrMismatch /\ pc = "except")

\* the fixed sequence of deployment operations for the resolved targets
ExpectedOps ==
    <<Op("upload_certificate", WEBHOSTING_ID, MAIN_WEB_ID),
      Op("upload_certificate", MAILHOSTING_ID, MAIL_ID),
      Op("secure_mail_action", WEBHOSTING_ID, MAIN_WEB_ID)>>
    \o [i \in 1..Len(ALL_WEB_IDS) |->
          Op("update_hosting_settings", WEBHOSTING_ID, ALL_WEB_IDS[i])]
    \o <<Op("secure_mail_action", MAILHOSTING_ID, MAIL_ID),
         Op("update_mail_settings", MAILHOSTING_ID, MAIL_ID)>>

IsPrefix(a, b) == Len(a) <= Len(b) /\ SubSeq(b, 1, Len(a)) = a

\* C8: the deployment operations performed are always a prefix of the fixed
\* sequence (upload web, upload mail, secure-mail web, hosting settings of
\* each id of ALL_WEB_IDS in order, secure-mail mail, mail settings); when
\* main has ended the prefix is the whole sequence exactly if main returned;
\* once an exception is propagating no operation is added, and none is ever
\* removed.
C8_OpsArePrefixOfFixedOrder ==
    /\ [](/\ IsPrefix(ops, ExpectedOps)
          /\ pc = "done" => (result = "returned" <=> ops = ExpectedOps))
    /\ [][ /\ IsPrefix(ops, ops')
           /\ exc # "" => ops' = ops ]_vars

\* C8 witness: the run failed inside the loop over two ids, after four
\* operations
C8_Witness ==
    /\ pc = "done" /\ result = "raised"
    /\ Len(ALL_WEB_IDS) = 2
    /\ Len(ops) = 4
    /\ ops[4].op = "update_hosting_settings"

\* the hosting-settings updates performed
HostingOps == SelectSeq(ops, LAMBDA o : o.op = "update_hosting_settings")

\* C9: when main has returned, the hosting-settings updates performed are
\* one per id of ALL_WEB_IDS, with the web host id and the run's certificate
\* name, and none for any other id; MAIN_WEB_ID is among them.
C9_HostingUpdatedForEveryWebId ==
    result = "returned"
    => /\ Len(HostingOps) = Len(ALL_WEB_IDS)
       /\ \A i \in DOMAIN HostingOps :
            /\ HostingOps[i].id = ALL_WEB_IDS[i]
            /\ HostingOps[i].host = WEBHOSTING_ID
            /\ HostingOps[i].cert = cert_name
       /\ \A i \in DOMAIN ALL_WEB_IDS :
            Cardinality({ j \in DOMAIN HostingOps : HostingOps[j].id = ALL_WEB_IDS[i] }) = 1
       /\ \E i \in DOMAIN HostingOps : HostingOps[i].id = MAIN_WEB_ID

\* C9 witness: a returned run over two ids whose primary id is the second
C9_Witness ==
    /\ result = "returned"
    /\ Len(ALL_WEB_IDS) = 2
    /\ MAIN_WEB_ID = ALL_WEB_IDS[2]
    /\ Len(HostingOps) = 2

\* browser, context and page exist: main is in or past its try block
SessionCreated == browser # "none" /\ context # "none" /\ page # "none"

DeployPcs ==
    {"upload_web", "upload_mail", "secure_web", "hosting", "secure_mail",
     "mail_settings"}

\* C11: for every fatal error raised by a stage, the snapshot of the page is
\* captured before the error leaves main, and the error that ends the run
\* is the stage's error: the step out of the except clause captures the
\* snapshot and keeps the exception.
C11_SnapshotThenOriginalError ==
    [][pc = "except" => (screenshot' = "captured" /\ exc' = exc)]_vars

\* C12: the only failure condition the run passes over is the missing
\* success confirmation after an upload; every other failure condition,
\* the host id that cannot be derived from the tab's address included, ends
\* the run with an error, and no operation is done again.
C12_OnlyMissingConfirmationTolerated ==
    /\ tolerated \subseteq {"no_confirmation"}
    /\ exc # "" => pc \in {"except", "finally", "close_browser", "done"}
    /\ \A i, j \in DOMAIN ops : ops[i] = ops[j] => i = j

\* the stages of main in the order of lines 355-360
StageOrder == <<"handle_login", "trigger_auto_login", "deploy">>

\* C13: the stages start in the order handle_login, trigger_auto_login,
\* deployment, each at most once; a stage starts only while no exception
\* has been raised, and once the deployment has started (and so before any
\* deployment operation) MAIN_WEB_ID and MAIL_ID are both resolved.
C13_StagesInOrderOnce ==
    /\ [](IsPrefix(stages, StageOrder))
    /\ []((pc \in DeployPcs \/ Len(stages) = 3 \/ ops # <<>>)
          => (MAIN_WEB_ID # None /\ MAIL_ID # None))
    /\ [][stages' # stages
          => (exc = "" /\ Len(stages') = Len(stages) + 1)]_vars

\* C13 witness: all three stages ran and main returned
C13_Witness ==
    /\ stages = StageOrder
    /\ result = "returned"
    /\ ops = ExpectedOps

\* C14: when the page after the login carries no second-factor challenge
\* (no challenge text, no TAN field), handle_login returns without
\* generating or submitting a code; a code is submitted only when a
\* challenge is present, not because the address is the landing page.
C14_NoCodeWithoutChallenge ==
    [][pc = "second_factor"
       => /\ (~post_login.verification /\ ~post_login.tan)
             => (totp' = "none" /\ pc' = "products" /\ exc' = "")
          /\ totp' = "submitted"
             => (post_login.verification \/ post_login.tan)]_vars

\* C15: when the deployment begins, WEBHOSTING_ID, MAILHOSTING_ID,
\* MAIN_WEB_ID and MAIL_ID are all set and ALL_WEB_IDS is not empty, and no
\* deployment operation is done with an unset identifier.
C15_TargetsPopulatedAtDeployment ==
    /\ pc \in DeployPcs
       => /\ WEBHOSTING_ID # None /\ MAILHOSTING_ID # None
          /\ MAIN_WEB_ID # None /\ MAIL_ID # None
          /\ ALL_WEB_IDS # <<>>
    /\ \A i \in DOMAIN ops : ops[i].host # None /\ ops[i].id # None

\* C16: in every reachable state, when MAIN_WEB_ID is set it is an element
\* of ALL_WEB_IDS.
C16_MainIsMemberOfAll ==
    MAIN_WEB_ID # None
    => \E i \in DOMAIN ALL_WEB_IDS : ALL_WEB_IDS[i] = MAIN_WEB_ID

\* C16 witness: the exact match was the last of three matching entries
C16_Witness ==
    /\ WebResolved /\ Decoded
    /\ ~used_fallback
    /\ Len(ALL_WEB_IDS) = 3
    /\ ALL_WEB_IDS[3] = MAIN_WEB_ID

\* no id stands twice in the sequence
NoDuplicates(ids) == \A i, j \in DOMAIN ids : ids[i] = ids[j] => i = j

\* a subdomain entry of the decoded list stands before an exact match
SubBeforeExact ==
    \E i \in DOMAIN domains_list.items :
        /\ Exact(domains_list.items[i])
        /\ \E j \in 1..(i - 1) : Sub(domains_list.items[j])

\* C17 as stated: after get_web_internal_ids returned, the first element of
\* ALL_WEB_IDS is MAIN_WEB_ID and no id stands twice, for every domain list.
C17_PrimaryFirst ==
    WebResolved
    => /\ ALL_WEB_IDS # <<>>
       /\ ALL_WEB_IDS[1] = MAIN_WEB_ID
       /\ NoDuplicates(ALL_WEB_IDS)

\* C17 amended: after get_web_internal_ids returned, ALL_WEB_IDS holds the
\* ids of the matching entries in the order of the list, no id twice, and
\* MAIN_WEB_ID among them; its first element is MAIN_WEB_ID exactly when no
\* subdomain entry stands before an exact match in the list.
C17_DiscoveryOrder ==
    (WebResolved /\ Decoded)
    => /\ ALL_WEB_IDS # <<>>
       /\ ALL_WEB_IDS = MatchingIds
       /\ NoDuplicates(ALL_WEB_IDS)
       /\ \E i \in DOMAIN ALL_WEB_IDS : ALL_WEB_IDS[i] = MAIN_WEB_ID
       /\ (ALL_WEB_IDS[1] = MAIN_WEB_ID) <=> ~SubBeforeExact

\* C17 witness: a subdomain entry was found before the exact match, and the
\* primary id is the second of the ids
C17_Witness ==
    /\ WebResolved /\ Decoded
    /\ SubBeforeExact
    /\ Len(ALL_WEB_IDS) = 2
    /\ ALL_WEB_IDS[2] = MAIN_WEB_ID
    /\ ALL_WEB_IDS[1] # MAIN_WEB_ID

\* the kinds whose tab is open
OpenTabs == {k \in Kinds : new_page[k] = "open"}

\* C18: at most one tab of a handoff is open at any time; no handoff is
\* triggered while a tab is open (the mail handoff not while the web tab is
\* open); no deployment step runs while a tab is open; and when main has
\* ended no tab is open, also after a failed id extraction.
C18_TabClosedBeforeProceeding ==
    /\ Cardinality(OpenTabs) <= 1
    /\ pc = "sso_click" => OpenTabs = {}
    /\ (pc = "sso_click" /\ button_name = "MAIL") => new_page["WEB"] = "closed"
    /\ pc \in DeployPcs => new_page = [k \in Kinds |-> "closed"]
    /\ pc = "done" => OpenTabs = {}

\* C18 witness: the mail tab's id extraction failed after the web tab had
\* been closed, and main ended with both tabs closed
C18_Witness ==
    /\ pc = "done"
    /\ exc \in {ErrNoMail, ErrNoMailId}
    /\ new_page = [k \in Kinds |-> "closed"]

\* the host-id global of a kind
HostId(k) == IF k = "WEB" THEN WEBHOSTING_ID ELSE MAILHOSTING_ID

\* each kind had one handoff, and its global one assignment by that handoff
OneHandoffEach == \A k \in Kinds : handoffs[k] = 1 /\ assigned[k] = <<k>>

\* C19 as stated: in every run each kind has exactly one handoff, and each
\* host-id global exactly one assignment, by the handoff of its kind.
C19_ExactlyOneHandoffInEveryRun ==
    result # "running" => OneHandoffEach

\* C19 amended: in every run each kind has at most one handoff and each
\* host-id global at most one assignment, by the handoff of its kind, and
\* is not changed after it; in every run that reaches the deployment there
\* is exactly one of each.
C19_AtMostOneHandoffPerKind ==
    /\ [](\A k \in Kinds : handoffs[k] <= 1 /\ assigned[k] \in {<<>>, <<k>>})
    /\ []((pc \in DeployPcs \/ result = "returned") => OneHandoffEach)
    /\ [][/\ assigned["WEB"] # <<>> => WEBHOSTING_ID' = WEBHOSTING_ID
          /\ assigned["MAIL"] # <<>> => MAILHOSTING_ID' = MAILHOSTING_ID
          /\ \A k \in Kinds : assigned'[k] = assigned[k] =>
                (IF k = "WEB" THEN WEBHOSTING_ID' = WEBHOSTING_ID
                              ELSE MAILHOSTING_ID' = MAILHOSTING_ID)]_vars

\* C19 witness: main returned after one handoff of each kind, each global
\* holding the host id of its own tab
C19_Witness ==
    /\ result = "returned"
    /\ OneHandoffEach
    /\ HostId("WEB") = "w7" /\ HostId("MAIL") = "m3"
====
